---------------------------- MODULE Spec2Model ----------------------------
(***************************************************************************)
(* A model of src/components/SavedDesignsManager.tsx.                      *)
(*                                                                         *)
(* Spec       the SavedDesignsManager React component: its state, the two  *)
(*            effects (load from / persist to localStorage) and its event  *)
(*            handlers, including the text generateComponentCode emits.    *)
(*                                                                         *)
(* SpecExport the same component with its export dialog open.              *)
(* SpecLoop   the effect of the exported GlassEffect component (the text   *)
(*            generateComponentCode emits): initialisation, the            *)
(*            requestAnimationFrame loop, the image load and the cleanup.  *)
(*                                                                         *)
(* Numbers.  A JavaScript number x is represented by the integer           *)
(* x * Milli (three decimal places), so 0.05 is 50 and 24 is 24000.        *)
(* Texts are sequences of tokens: one-character strings for the characters *)
(* the code inspects (names, number literals), whole strings for text that *)
(* is only copied.                                                         *)
(***************************************************************************)
EXTENDS Integers, Sequences, FiniteSets, TLC

\* Resolution of the number representation: x is stored as x * Milli.
Milli == 10 * 10 * 10

(***************************************************************************)
(* Bounds of the model.                                                    *)
(***************************************************************************)
\* Largest reading of Date.now() (in ms).
MaxClock == 2
\* Number of Designs ever created (by this and by earlier sessions).
MaxSaves == 2
\* Longest list of designs the export dialog is opened on.
MaxShown == 2
\* Runs of the exported component's effect (mounts and remounts).
MaxSessions == 2
\* Calls of requestAnimationFrame (the handles are 1..MaxFrames).
MaxFrames == 4

(***************************************************************************)
(* Characters, strings and number formatting.                              *)
(***************************************************************************)
\* Characters String.prototype.trim removes (a subset of WhiteSpace).
Whitespace == {" ", "\t"}

RECURSIVE TrimStart(_)
TrimStart(s) ==
  IF s # <<>> /\ Head(s) \in Whitespace THEN TrimStart(Tail(s)) ELSE s

RECURSIVE TrimEnd(_)
TrimEnd(s) ==
  IF s # <<>> /\ s[Len(s)] \in Whitespace
    THEN TrimEnd(SubSeq(s, 1, Len(s) - 1))
    ELSE s

\* String.prototype.trim, as used on designName.
Trim(s) == TrimEnd(TrimStart(s))

Digits == <<"0", "1", "2", "3", "4", "5", "6", "7", "8", "9">>

DigitValues ==
  [c \in {Digits[i] : i \in 1..10} |-> CHOOSE d \in 0..9 : Digits[d + 1] = c]

DigitValue(c) == DigitValues[c]

RECURSIVE NatToString(_)
NatToString(n) ==
  IF n < 10 THEN <<Digits[n + 1]>>
  ELSE NatToString(n \div 10) \o <<Digits[(n % 10) + 1]>>

RECURSIVE StripTrailingZeros(_)
StripTrailingZeros(s) ==
  IF s # <<>> /\ s[Len(s)] = "0"
    THEN StripTrailingZeros(SubSeq(s, 1, Len(s) - 1))
    ELSE s

\* Number::toString (radix 10) of the number x / Milli: what `${x}`,
\* x.toString() and JSON.stringify(x) print.  Minus zero does not exist in
\* the representation; it prints as "0" in JavaScript.
NumberToString(x) ==
  LET a    == IF x < 0 THEN -x ELSE x
      ip   == a \div Milli
      fp   == a % Milli
      pad  == <<Digits[(fp \div 100) + 1], Digits[((fp \div 10) % 10) + 1],
                Digits[(fp % 10) + 1]>>
      frac == StripTrailingZeros(pad)
  IN  (IF x < 0 THEN <<"-">> ELSE <<>>)
      \o NatToString(ip)
      \o (IF frac = <<>> THEN <<>> ELSE <<".">> \o frac)

RECURSIVE DigitsToNat(_)
DigitsToNat(s) ==
  IF s = <<>> THEN 0
  ELSE 10 * DigitsToNat(SubSeq(s, 1, Len(s) - 1)) + DigitValue(s[Len(s)])

\* Position of the first "." in s, or 0.
DotIndex(s) ==
  IF \E i \in 1..Len(s) : s[i] = "."
    THEN CHOOSE i \in 1..Len(s) : s[i] = "." /\ \A j \in 1..(i - 1) : s[j] # "."
    ELSE 0

\* The value (times Milli) of a decimal numeric literal, as the JavaScript and
\* JSON grammars read it: optional sign, integer digits, optional fraction.
ParseNumber(s) ==
  LET neg  == s # <<>> /\ s[1] = "-"
      body == IF neg THEN Tail(s) ELSE s
      dot  == DotIndex(body)
      ip   == IF dot = 0 THEN body ELSE SubSeq(body, 1, dot - 1)
      fr   == IF dot = 0 THEN <<>> ELSE SubSeq(body, dot + 1, Len(body))
      fr3  == SubSeq(fr \o <<"0", "0", "0">>, 1, 3)
      mag  == DigitsToNat(ip) * Milli + DigitsToNat(fr3)
  IN  IF neg THEN -mag ELSE mag

(***************************************************************************)
(* ShaderParams and SavedDesign.                                           *)
(***************************************************************************)
\* The fields of interface ShaderParams.
ShaderParamFields ==
  {"width", "height", "mouseX", "mouseY", "tintR", "tintG", "tintB",
   "saturation", "distortion", "blur", "text", "iconSize", "iconColorR",
   "iconColorG", "iconColorB", "glassMode", "shadowIntensity",
   "shadowOffsetX", "shadowOffsetY", "shadowBlur", "cornerRadius",
   "chromaticAberration", "shape", "donutThickness", "starPoints",
   "starInnerRadius"}

\* The fields of ShaderParams typed string (or a union of string literals).
StringParamFields == {"text", "glassMode", "shape"}

NumericParamFields == ShaderParamFields \ StringParamFields

\* Parameter sets the editor can hand the component (values times Milli).
ParamsA ==
  [width |-> 150000, height |-> 100000, mouseX |-> 400000, mouseY |-> 300000,
   tintR |-> 1000, tintG |-> 1000, tintB |-> 1000, saturation |-> 1200,
   distortion |-> 1000, blur |-> 1000, text |-> "Glass", iconSize |-> 300,
   iconColorR |-> 1000, iconColorG |-> 1000, iconColorB |-> 1000,
   glassMode |-> "light", shadowIntensity |-> 300, shadowOffsetX |-> 0,
   shadowOffsetY |-> 4000, shadowBlur |-> 20000, cornerRadius |-> 24000,
   chromaticAberration |-> 0, shape |-> "rectangle",
   donutThickness |-> 300, starPoints |-> 5000, starInnerRadius |-> 400]

ParamsB ==
  [width |-> 80500, height |-> 120000, mouseX |-> 12000, mouseY |-> 7250,
   tintR |-> 950, tintG |-> 5, tintB |-> 1100, saturation |-> 0,
   distortion |-> 0, blur |-> 0, text |-> "", iconSize |-> 125,
   iconColorR |-> 0, iconColorG |-> 500, iconColorB |-> 1000,
   glassMode |-> "dark", shadowIntensity |-> 1000, shadowOffsetX |-> -2500,
   shadowOffsetY |-> -10, shadowBlur |-> 0, cornerRadius |-> 0,
   chromaticAberration |-> 1500, shape |-> "circle",
   donutThickness |-> 550, starPoints |-> 7000, starInnerRadius |-> 125]

\* The (currentParams, currentBackgroundUrl) props the parent can pass.
ParamsC ==
  [ParamsA EXCEPT !.shape = "donut", !.glassMode = "dark", !.text = "Aa",
                  !.width = 64000, !.iconSize = 1000, !.mouseX = -1250]

ParamSets == {ParamsA, ParamsB, ParamsC}

PropsValues ==
  { [currentParams |-> ParamsA, currentBackgroundUrl |-> "bg1.jpg"],
    [currentParams |-> ParamsB, currentBackgroundUrl |-> "bg2.png"] }

\* What the user can type into the name input.
TypedNames == { <<" ", "\t">>, <<" ", "a", " ">> }

\* JavaScript values that are not objects of the program.
Undefined == [t |-> "undefined"]
NullValue == [t |-> "null"]
PlainObject == [t |-> "object"]
List(s) == [t |-> "list", v |-> s]

IsList(x) == x.t = "list"

\* An element of the saved list that is a SavedDesign in full: an object with
\* its params present.  (sn is not a field of the program: it names the save
\* that created the record, for the properties below.)
IsDesign(d) == d.t = "design" /\ d.params # Undefined


(***************************************************************************)
(* JSON.stringify and JSON.parse on the values the component stores.       *)
(* A stored text is [t |-> "none"] (no item), [t |-> "empty"] (""),        *)
(* [t |-> "garbage"] (not JSON) or [t |-> "json", v |-> document], where   *)
(* the document holds every number as its literal text.                    *)
(***************************************************************************)
NoItem == [t |-> "none"]
EmptyText == [t |-> "empty"]
GarbageText == [t |-> "garbage"]
JsonText(doc) == [t |-> "json", v |-> doc]

RECURSIVE MapSeq(_, _)
MapSeq(Op(_), s) ==
  IF s = <<>> THEN <<>> ELSE <<Op(Head(s))>> \o MapSeq(Op, Tail(s))

\* The numbers of the model and their texts, computed once.
NumberValues ==
  UNION { {q[f] : f \in NumericParamFields} : q \in ParamSets }
    \cup {n * Milli : n \in 0..(MaxClock + 1)}

NumberTexts == [x \in NumberValues |-> NumberToString(x)]

NumberValuesOfText ==
  [s \in {NumberTexts[x] : x \in NumberValues} |-> ParseNumber(s)]

\* The literal JSON.stringify and a template literal print for number x.
NumberLiteral(x) ==
  IF x \in DOMAIN NumberTexts THEN NumberTexts[x] ELSE NumberToString(x)

\* The number a numeric literal denotes.
LiteralNumber(s) ==
  IF s \in DOMAIN NumberValuesOfText THEN NumberValuesOfText[s] ELSE ParseNumber(s)

StringifyParams(p) ==
  [f \in DOMAIN p |->
     IF f \in StringParamFields THEN <<"\"", p[f], "\"">>
     ELSE NumberLiteral(p[f])]

ParseParams(o) ==
  [f \in DOMAIN o |->
     IF o[f][1] = "\"" THEN o[f][2] ELSE LiteralNumber(o[f])]

StringifyEntry(d) ==
  IF d.t # "design" THEN d
  ELSE [d EXCEPT
          !.params = IF @ = Undefined THEN Undefined ELSE StringifyParams(@),
          !.createdAt = NumberLiteral(@),
          !.updatedAt = NumberLiteral(@)]

ParseEntry(o) ==
  IF o.t # "design" THEN o
  ELSE [o EXCEPT
          !.params = IF @ = Undefined THEN Undefined ELSE ParseParams(@),
          !.createdAt = LiteralNumber(@),
          !.updatedAt = LiteralNumber(@)]

\* JSON.stringify(value), as a stored text.
JSONstringify(x) ==
  JsonText(IF IsList(x) THEN List(MapSeq(StringifyEntry, x.v)) ELSE x)

\* JSON.parse(text): the value, or a SyntaxError.
JSONparse(text) ==
  IF text.t # "json" THEN [ok |-> FALSE, v |-> Undefined]
  ELSE [ok |-> TRUE,
        v  |-> IF IsList(text.v) THEN List(MapSeq(ParseEntry, text.v.v))
               ELSE text.v]

(***************************************************************************)
(* The exported text: generateComponentCode.                               *)
(***************************************************************************)
ShapeNames == <<"rectangle", "circle", "star", "hexagon", "donut">>

\* Array.prototype.indexOf: the 0-based position, or -1.
IndexOf(seq, x) ==
  IF \E i \in 1..Len(seq) : seq[i] = x
    THEN (CHOOSE i \in 1..Len(seq) : seq[i] = x /\ \A j \in 1..(i - 1) : seq[j] # x) - 1
    ELSE -1

\* A slip of lines 168-191: the value is printed without its fraction
\* (${Math.floor(x)}).
Num_Integer(key, x) ==
  [key |-> key, lit |-> NumberToString((x \div Milli) * Milli)]

\* One numeric entry, key: ${x}, of the params object.
Num(key, x) == [key |-> key, lit |-> NumberLiteral(x)]

\* The entries of `const params = { ... }` in the generated text, in order.
ParamsObjectText(params, shapeValue) ==
  << Num("width", params.width), Num("height", params.height),
     Num("mouseX", params.mouseX), Num("mouseY", params.mouseY),
     Num("tintR", params.tintR), Num("tintG", params.tintG),
     Num("tintB", params.tintB), Num("saturation", params.saturation),
     Num("distortion", params.distortion), Num("blur", params.blur),
     Num("iconColorR", params.iconColorR),
     Num("iconColorG", params.iconColorG),
     Num("iconColorB", params.iconColorB),
     [key |-> "glassMode", lit |-> <<"'", params.glassMode, "'">>],
     Num("shadowIntensity", params.shadowIntensity),
     Num("shadowOffsetX", params.shadowOffsetX),
     Num("shadowOffsetY", params.shadowOffsetY),
     Num("shadowBlur", params.shadowBlur),
     Num("cornerRadius", params.cornerRadius),
     Num("chromaticAberration", params.chromaticAberration),
     Num("shape", shapeValue * Milli),
     Num("donutThickness", params.donutThickness),
     Num("starPoints", params.starPoints),
     Num("starInnerRadius", params.starInnerRadius) >>

\* The text generateComponentCode returns, as its substitution points: the
\* rest of the template is constant text.
GenerateComponentCode(design) ==
  LET params     == design.params
      shapeValue == IndexOf(ShapeNames, params.shape)
  IN  [t            |-> "code",
       title        |-> design.name,
       paramsObject |-> ParamsObjectText(params, shapeValue),
       imageSrc     |-> <<"'", design.backgroundUrl, "'">>,
       fontSize     |-> NumberLiteral(params.iconSize),
       overlayText  |-> params.text,
       config       |-> << params.shape,
                           NumberLiteral(params.width),
                           NumberLiteral(params.height),
                           NumberLiteral(params.blur),
                           NumberLiteral(params.distortion),
                           NumberLiteral(params.saturation),
                           NumberLiteral(params.chromaticAberration),
                           NumberLiteral(params.shadowIntensity),
                           NumberLiteral(params.shadowOffsetX),
                           NumberLiteral(params.shadowOffsetY) >>]

NoCode == [t |-> "empty"]


(***************************************************************************)
(* The state.  The module models three parts of the program: the manager   *)
(* component, the effect of the exported component (its render loop), and  *)
(* the fragment shader the loop draws with.                                *)
(***************************************************************************)
VARIABLES
  storage,    \* localStorage item STORAGE_KEY, as a stored text
  st,         \* the component's state with every queued update applied
  view,       \* the state the last render captured (what the handlers read)
  props,      \* currentParams and currentBackgroundUrl of the last render
  dirty,      \* savedDesigns was set since the last render
  phase,      \* "unmounted", "mounted" or "faulted" (a render or effect threw)
  now,        \* the last reading of Date.now(), in ms
  toast,      \* the toast the last operation showed
  calls,      \* the onLoadDesign calls the last operation made
  output,     \* what the last operation wrote to the clipboard or a download
  nextSn,     \* number of Designs created so far, plus one
  savedWith   \* sn -> the props that were current when Design sn was saved

mgrVars == <<storage, st, view, props, dirty, phase, now, toast, calls,
             output, nextSn, savedWith>>

VARIABLES
  sessions,      \* session -> its record (below)
  cur,           \* the latest session, 0 before the first mount
  instances,     \* instance -> [animationRef, bound, lost]: animationRef.current
                 \* (0: undefined), the session whose texture is bound to
                 \* TEXTURE_2D in the instance's context (0: none), and
                 \* whether that context is lost
  rafQueue,      \* the pending animation-frame callbacks: [id, session]
  nextId,        \* the handle the next requestAnimationFrame returns
  lateActivity   \* render() ran, or requestAnimationFrame was called, for a
                 \* session after its teardown

loopVars == <<sessions, cur, instances, rafQueue, nextId, lateActivity>>

VARIABLES
  frag,          \* the inputs of one run of the fragment shader: the uniforms,
                 \* v_texCoord and the platform
  pixel          \* what the run left (NoPixel before it)

shaderVars == <<frag, pixel>>

vars == <<mgrVars, loopVars, shaderVars>>


(***************************************************************************)
(* The SavedDesignsManager component.                                      *)
(*                                                                         *)
(* React runs a handler against the values its last render captured        *)
(* (view, props) and queues its state updates; updater functions are       *)
(* applied to the latest queued state (st).  Render commits st and then    *)
(* runs the effects whose dependencies changed.                            *)
(***************************************************************************)

\* useState initial values.
InitialState ==
  [savedDesigns |-> List(<<>>), isOpen |-> FALSE, isSaveDialogOpen |-> FALSE,
   isCodeDialogOpen |-> FALSE, designName |-> <<>>,
   selectedDesign |-> NullValue, generatedCode |-> NoCode]

NoToast == [kind |-> "none", text |-> "", name |-> <<>>]
Toast(kind, text, name) == [kind |-> kind, text |-> text, name |-> name]
NoOutput == [kind |-> "none"]

\* A Design an earlier session saved, and records that are not Designs.
OldDesign ==
  [t |-> "design", id |-> NatToString(0), name |-> <<"o", "l", "d">>,
   params |-> ParamsA, backgroundUrl |-> "bg0.jpg", createdAt |-> 0,
   updatedAt |-> 0, sn |-> 1]

PartialRecord == [OldDesign EXCEPT !.id = <<"p">>, !.params = Undefined, !.sn = 0]

\* What localStorage can hold when the component first mounts: nothing, or
\* a list the earlier session (or another writer of the key) stored.
InitialLists ==
  { List(<<OldDesign>>), List(<<NullValue, OldDesign>>),
    List(<<OldDesign, PartialRecord>>) }

InitialStorage ==
  { NoItem, EmptyText, GarbageText, JsonText(NullValue), JsonText(PlainObject) }
    \cup { JSONstringify(l) : l \in InitialLists }

Pair(params, url) == [params |-> params, backgroundUrl |-> url]

MgrInit ==
  /\ storage \in InitialStorage
  /\ st = InitialState
  /\ view = InitialState
  /\ props = [currentParams |-> ParamsA, currentBackgroundUrl |-> "bg1.jpg"]
  /\ dirty = FALSE
  /\ phase = "unmounted"
  /\ now = 1
  /\ toast = NoToast
  /\ calls = <<>>
  /\ output = NoOutput
  /\ LET old == storage \in { JSONstringify(l) : l \in InitialLists }
     IN  /\ nextSn = IF old THEN 2 ELSE 1
         /\ savedWith =
              [n \in 1..MaxSaves |->
                 IF old /\ n = 1
                   THEN Pair(OldDesign.params, OldDesign.backgroundUrl)
                   ELSE Undefined]

\* ---- render -----------------------------------------------------------

\* savedDesigns.length
Length(x) == IF IsList(x) THEN Len(x.v) ELSE 0

\* Whether rendering state s throws: the updater of handleSaveDesign spread
\* a non-iterable, savedDesigns.length is read of null (the trigger button),
\* or the open list dialog maps over a non-list or reads the fields of an
\* element that is no Design.
RenderThrows(s) ==
  \/ s.savedDesigns.t \in {"throws", "null"}
  \/ /\ s.isOpen
     /\ \/ ~IsList(s.savedDesigns)
        \/ \E i \in 1..Length(s.savedDesigns) : ~IsDesign(s.savedDesigns.v[i])

\* The effect "Save designs to localStorage whenever they change".
PersistEffect(s, store) ==
  IF Length(s.savedDesigns) > 0 THEN JSONstringify(s.savedDesigns) ELSE store

\* The component function runs: mounting (first render and both effects).
Mount ==
  /\ phase = "unmounted"
  /\ phase' = "mounted"
  /\ view' = InitialState
  /\ LET saved  == storage
         truthy == saved.t \notin {"none", "empty"}
         parsed == JSONparse(saved)
     IN  IF truthy /\ parsed.ok
           THEN /\ st' = [InitialState EXCEPT !.savedDesigns = parsed.v]
                /\ dirty' = TRUE
           ELSE /\ st' = InitialState
                /\ dirty' = FALSE
  /\ storage' = PersistEffect(InitialState, storage)
  /\ toast' = NoToast
  /\ calls' = <<>>
  /\ output' = NoOutput
  /\ UNCHANGED <<props, now, nextSn, savedWith>>
  /\ UNCHANGED <<loopVars, shaderVars>>

\* A re-render: queued state updates, or new props from the parent.
Render(p) ==
  /\ phase = "mounted"
  /\ st # view \/ dirty \/ p # props
  /\ props' = p
  /\ IF RenderThrows(st)
       THEN /\ phase' = "faulted"
            /\ UNCHANGED <<view, storage, dirty>>
       ELSE /\ phase' = "mounted"
            /\ view' = st
            /\ storage' = IF dirty THEN PersistEffect(st, storage) ELSE storage
            /\ dirty' = FALSE
  /\ toast' = NoToast
  /\ calls' = <<>>
  /\ output' = NoOutput
  /\ UNCHANGED <<st, now, nextSn, savedWith>>
  /\ UNCHANGED <<loopVars, shaderVars>>

\* The page is left or reloaded: the component's state is gone, the storage
\* stays.
Unmount ==
  /\ phase \in {"mounted", "faulted"}
  /\ phase' = "unmounted"
  /\ st' = InitialState
  /\ view' = InitialState
  /\ dirty' = FALSE
  /\ toast' = NoToast
  /\ calls' = <<>>
  /\ output' = NoOutput
  /\ UNCHANGED <<storage, props, now, nextSn, savedWith>>
  /\ UNCHANGED <<loopVars, shaderVars>>


\* ---- handlers ---------------------------------------------------------

\* A slip of line 91: the name is tested without trim().
IsBlankName_NoTrim(name) == name = <<>>

\* !designName.trim()
IsBlankName(name) == Trim(name) = <<>>

\* A slip of line 104: the new design goes to the tail, [...prev, newDesign].
PrependDesign_Append(newDesign, prev) ==
  IF IsList(prev) THEN List(prev.v \o <<newDesign>>) ELSE [t |-> "throws"]

\* prev => [newDesign, ...prev]; spreading a non-iterable throws when the
\* updater runs.
PrependDesign(newDesign, prev) ==
  IF IsList(prev) THEN List(<<newDesign>> \o prev.v) ELSE [t |-> "throws"]

\* list.filter(d => d.id !== id)
FilterOutId(list, id) ==
  IF IsList(list) /\ \A i \in 1..Len(list.v) : list.v[i].t = "design"
    THEN List(SelectSeq(list.v, LAMBDA d : d.id # id))
    ELSE [t |-> "throws"]

\* savedDesigns.find(d => d.id === id)
FindById(list, id) ==
  IF \E i \in 1..Len(list.v) : list.v[i].id = id
    THEN list.v[CHOOSE i \in 1..Len(list.v) :
                  list.v[i].id = id /\ \A j \in 1..(i - 1) : list.v[j].id # id]
    ELSE Undefined

\* A slip of line 119: the current props are passed instead of the Design's.
LoadArguments_Current(design) ==
  Pair(props.currentParams, props.currentBackgroundUrl)

\* The arguments handleLoadDesign passes to onLoadDesign.
LoadArguments(design) == Pair(design.params, design.backgroundUrl)

\* The object literal newDesign of handleSaveDesign; t1, t2, t3 are its three
\* readings of Date.now().  (The clock of the model does not tick inside one
\* handler call: HandleSaveDesign passes one reading three times.)
NewDesign(name, t1, t2, t3) ==
  [t |-> "design", id |-> NumberLiteral(t1 * Milli), name |-> Trim(name),
   params |-> props.currentParams,
   backgroundUrl |-> props.currentBackgroundUrl,
   createdAt |-> t2 * Milli, updatedAt |-> t3 * Milli, sn |-> nextSn]

\* The designs the open list dialog shows, each with its three buttons.
ShownDesigns ==
  IF phase = "mounted" /\ view.isOpen /\ IsList(view.savedDesigns)
    THEN 1..Len(view.savedDesigns.v) ELSE {}

NoDialogOpen ==
  ~view.isOpen /\ ~view.isSaveDialogOpen /\ ~view.isCodeDialogOpen

Quiet == /\ calls' = <<>>
         /\ output' = NoOutput

HandleSaveDesign ==
  /\ phase = "mounted"
  /\ view.isSaveDialogOpen
  /\ IF IsBlankName(view.designName)
       THEN /\ toast' = Toast("error", "Please enter a name for your design", <<>>)
            /\ UNCHANGED <<st, dirty, now, nextSn, savedWith>>
       ELSE /\ nextSn <= MaxSaves
            /\ \E t \in now..MaxClock :
                 LET newDesign == NewDesign(view.designName, t, t, t)
                 IN  /\ st' = [st EXCEPT
                                 !.savedDesigns = PrependDesign(newDesign, @),
                                 !.designName = <<>>,
                                 !.isSaveDialogOpen = FALSE]
                     /\ toast' = Toast("success", "saved successfully", newDesign.name)
                     /\ now' = t
            /\ dirty' = TRUE
            /\ nextSn' = nextSn + 1
            /\ savedWith' = [savedWith EXCEPT
                               ![nextSn] = Pair(props.currentParams,
                                                props.currentBackgroundUrl)]
  /\ Quiet
  /\ UNCHANGED <<storage, view, props, phase>>
  /\ UNCHANGED <<loopVars, shaderVars>>

HandleDeleteDesign(i) ==
  /\ i \in ShownDesigns
  /\ LET id     == view.savedDesigns.v[i].id
         design == FindById(view.savedDesigns, id)
     IN  /\ st' = [st EXCEPT !.savedDesigns = FilterOutId(@, id)]
         /\ storage' = JSONstringify(FilterOutId(view.savedDesigns, id))
         /\ toast' = Toast("success", "deleted", design.name)
  /\ dirty' = TRUE
  /\ Quiet
  /\ UNCHANGED <<view, props, phase, now, nextSn, savedWith>>
  /\ UNCHANGED <<loopVars, shaderVars>>

HandleLoadDesign(i) ==
  /\ i \in ShownDesigns
  /\ LET design == view.savedDesigns.v[i]
     IN  /\ calls' = <<LoadArguments(design)>>
         /\ st' = [st EXCEPT !.isOpen = FALSE]
         /\ toast' = Toast("success", "loaded", design.name)
  /\ output' = NoOutput
  /\ UNCHANGED <<storage, view, props, dirty, phase, now, nextSn, savedWith>>
  /\ UNCHANGED <<loopVars, shaderVars>>

HandleExportCode(i) ==
  /\ i \in ShownDesigns
  /\ LET design == view.savedDesigns.v[i]
     IN  /\ st' = [st EXCEPT !.generatedCode = GenerateComponentCode(design),
                             !.selectedDesign = design,
                             !.isCodeDialogOpen = TRUE]
  /\ toast' = NoToast
  /\ Quiet
  /\ UNCHANGED <<storage, view, props, dirty, phase, now, nextSn, savedWith>>
  /\ UNCHANGED <<loopVars, shaderVars>>

HandleCopyCode ==
  /\ phase = "mounted"
  /\ view.isCodeDialogOpen
  /\ output' = [kind |-> "clipboard", text |-> view.generatedCode]
  /\ toast' = Toast("success", "Code copied to clipboard", <<>>)
  /\ calls' = <<>>
  /\ UNCHANGED <<storage, st, view, props, dirty, phase, now, nextSn, savedWith>>
  /\ UNCHANGED <<loopVars, shaderVars>>

HandleDownloadCode ==
  /\ phase = "mounted"
  /\ view.isCodeDialogOpen
  /\ output' = [kind |-> "download",
                file |-> IF view.selectedDesign.t = "design"
                             /\ view.selectedDesign.name # <<>>
                           THEN view.selectedDesign.name
                           ELSE <<"glass-component">>,
                text |-> view.generatedCode]
  /\ toast' = Toast("success", "Code downloaded", <<>>)
  /\ calls' = <<>>
  /\ UNCHANGED <<storage, st, view, props, dirty, phase, now, nextSn, savedWith>>
  /\ UNCHANGED <<loopVars, shaderVars>>

\* Nothing is queued: the last render shows the current state.
Settled == st = view /\ ~dirty

\* onChange of the name input.  (React renders after each input event.)
SetDesignName(name) ==
  /\ phase = "mounted"
  /\ Settled
  /\ view.isSaveDialogOpen
  /\ st' = [st EXCEPT !.designName = name]
  /\ toast' = NoToast
  /\ Quiet
  /\ UNCHANGED <<storage, view, props, dirty, phase, now, nextSn, savedWith>>
  /\ UNCHANGED <<loopVars, shaderVars>>

\* The dialogs' triggers and onOpenChange (the dialogs are modal: a trigger
\* is reachable only while no dialog is open; the code dialog has no trigger).
SetDialog(which, open) ==
  /\ phase = "mounted"
  /\ Settled
  /\ IF open THEN NoDialogOpen /\ which # "isCodeDialogOpen" ELSE view[which]
  /\ st' = [st EXCEPT ![which] = open]
  /\ toast' = NoToast
  /\ Quiet
  /\ UNCHANGED <<storage, view, props, dirty, phase, now, nextSn, savedWith>>
  /\ UNCHANGED <<loopVars, shaderVars>>

\* The operations on the list of designs.
MgrNext ==
  \/ Mount
  \/ \E p \in PropsValues : Render(p)
  \/ Unmount
  \/ HandleSaveDesign
  \/ \E i \in ShownDesigns : HandleDeleteDesign(i)
  \/ \E i \in ShownDesigns : HandleLoadDesign(i)
  \/ \E name \in TypedNames : SetDesignName(name)
  \/ \E which \in {"isOpen", "isSaveDialogOpen"} :
       \E open \in BOOLEAN : SetDialog(which, open)


(***************************************************************************)
(* The export dialog (SpecExport).  The component is mounted and its list   *)
(* dialog shows a list of Designs; the user exports, copies, downloads and *)
(* closes the code dialog.                                                 *)
(***************************************************************************)
SavedDesignOf(p) ==
  [t |-> "design", id |-> NumberLiteral(Milli), name |-> <<"a">>, params |-> p,
   backgroundUrl |-> "bg1.jpg", createdAt |-> Milli, updatedAt |-> Milli,
   sn |-> 1]

RECURSIVE SeqsUpTo(_, _)
SeqsUpTo(S, n) ==
  IF n = 0 THEN {<<>>}
  ELSE LET shorter == SeqsUpTo(S, n - 1)
       IN  shorter \cup {Append(q, x) : q \in shorter, x \in S}

ExportLists ==
  SeqsUpTo({SavedDesignOf(p) : p \in ParamSets}, MaxShown) \ {<<>>}

ExportInit ==
  /\ \E list \in ExportLists :
       /\ st = [InitialState EXCEPT !.savedDesigns = List(list), !.isOpen = TRUE]
       /\ storage = JSONstringify(List(list))
  /\ view = st
  /\ props = [currentParams |-> ParamsA, currentBackgroundUrl |-> "bg1.jpg"]
  /\ dirty = FALSE
  /\ phase = "mounted"
  /\ now = 1
  /\ toast = NoToast
  /\ calls = <<>>
  /\ output = NoOutput
  /\ nextSn = MaxSaves + 1
  /\ savedWith = [n \in 1..MaxSaves |-> Undefined]

ExportNext ==
  \/ \E i \in ShownDesigns : HandleExportCode(i)
  \/ HandleCopyCode
  \/ HandleDownloadCode
  \/ SetDialog("isCodeDialogOpen", FALSE)
  \/ Render(props)



(***************************************************************************)
(* SpecLoop: the effect of the exported component (lines 404-501 of the    *)
(* generated text).  A session is one run of the effect.  The sessions of  *)
(* one component instance share its refs and its canvas, hence its WebGL   *)
(* context; React runs the cleanup of a session before the next one.       *)
(***************************************************************************)

\* How the initialisation of a session ends: the four early returns of lines
\* 406-418, a null texture (the guard of line 460), or success.
EarlyReturns == {"noCanvas", "noContext", "shaderError", "linkError"}
InitOutcomes == EarlyReturns \cup {"noTexture", "ok"}

NoFrame == [image |-> "none", sampled |-> "none"]

UnusedSession ==
  [status |-> "unused", init |-> "none", instance |-> 0, image |-> "none",
   texture |-> "none", frames |-> 0, lastFrame |-> NoFrame]

LoopInit ==
  /\ sessions = [s \in 1..MaxSessions |-> UnusedSession]
  /\ cur = 0
  /\ instances = [i \in 1..MaxSessions |->
                    [animationRef |-> 0, bound |-> 0, lost |-> FALSE]]
  /\ rafQueue = {}
  /\ nextId = 1
  /\ lateActivity = FALSE

\* What texture2D(u_texture, ...) reads in the context of instance inst: the
\* content of the bound texture ("blank" while nothing was uploaded).
Sampled(ss, inst) ==
  IF inst.bound = 0 THEN "blank" ELSE ss[inst.bound].texture

\* A slip of lines 406-418 and 460: the loop starts whatever the
\* initialisation gave.
PassesGuard_Always(rec) == TRUE

\* if (!gl || !program || !texture) return;  (negated)
PassesGuard(rec) == rec.init = "ok"

\* The session record after render() drew a frame.
DrawFrame(ss, s, inst) ==
  [ss[s] EXCEPT !.frames = @ + 1,
                !.lastFrame = [image |-> ss[s].image, sampled |-> Sampled(ss, inst)]]

\* cancelAnimationFrame(id)
CancelAnimationFrame(queue, id) == {cb \in queue : cb.id # id}

\* A cleanup that cancels nothing.
Cleanup_NoCancel(queue, inst) == queue

\* The cleanup the effect returns (lines 496-500).
Cleanup(queue, inst) ==
  IF inst.animationRef # 0 THEN CancelAnimationFrame(queue, inst.animationRef)
  ELSE queue

\* An onload that uploads nothing.
OnLoad_NoUpload(ss, s) == [ss[s] EXCEPT !.image = "ready"]

\* image.onload (lines 447-454), for the texture of session s.
OnLoad(ss, s) == [ss[s] EXCEPT !.image = "ready",
                               !.texture = IF @ = "none" THEN "none" ELSE "image"]

\* The effect runs: a first mount, a remount of a new instance (fresh), or a
\* re-run in the same instance (React's strict mode).
MountEffect(outcome, fresh) ==
  /\ cur < MaxSessions
  /\ IF cur = 0 THEN TRUE ELSE sessions[cur].status = "tornDown"
  /\ cur = 0 => fresh
  \* createTexture returns null only when the context is lost, and a lost
  \* context creates no shader either
  /\ IF fresh THEN TRUE
     ELSE instances[sessions[cur].instance].lost => outcome = "shaderError"
  /\ outcome = "ok" => nextId <= MaxFrames
  /\ LET s    == cur + 1
         i    == IF fresh THEN s ELSE sessions[cur].instance
         rec  == [UnusedSession EXCEPT
                    !.init = outcome, !.instance = i,
                    !.status = IF outcome \in EarlyReturns THEN "failed" ELSE "running",
                    !.image = IF outcome \in EarlyReturns THEN "none" ELSE "loading",
                    !.texture = IF outcome = "ok" THEN "blank" ELSE "none"]
         ss   == [sessions EXCEPT ![s] = rec]
         \* gl.bindTexture(gl.TEXTURE_2D, texture)
         inst == IF outcome \in EarlyReturns THEN instances[i]
                 ELSE [instances[i] EXCEPT
                         !.bound = IF outcome = "ok" THEN s ELSE 0,
                         !.lost = (outcome = "noTexture")]
     IN  /\ cur' = s
         /\ IF PassesGuard(rec)
              THEN \* render(): the first frame, and the first tick scheduled
                   /\ sessions' = [ss EXCEPT ![s] = DrawFrame(ss, s, inst)]
                   /\ rafQueue' = rafQueue \cup {[id |-> nextId, session |-> s]}
                   /\ instances' = [instances EXCEPT
                                      ![i] = [inst EXCEPT !.animationRef = nextId]]
                   /\ nextId' = nextId + 1
              ELSE /\ sessions' = ss
                   /\ instances' = [instances EXCEPT ![i] = inst]
                   /\ UNCHANGED <<rafQueue, nextId>>
  /\ UNCHANGED lateActivity
  /\ UNCHANGED <<mgrVars, shaderVars>>

\* The browser runs a pending callback: render() of the session that
\* scheduled it.
AnimationFrame(cb) ==
  /\ cb \in rafQueue
  /\ nextId <= MaxFrames
  /\ LET s == cb.session
         i == sessions[s].instance
     IN  /\ lateActivity' = (lateActivity \/ sessions[s].status = "tornDown")
         /\ IF PassesGuard(sessions[s])
              THEN /\ sessions' = [sessions EXCEPT
                                     ![s] = DrawFrame(sessions, s, instances[i])]
                   /\ rafQueue' = (rafQueue \ {cb})
                                    \cup {[id |-> nextId, session |-> s]}
                   /\ instances' = [instances EXCEPT ![i].animationRef = nextId]
                   /\ nextId' = nextId + 1
              ELSE /\ rafQueue' = rafQueue \ {cb}
                   /\ UNCHANGED <<sessions, instances, nextId>>
  /\ UNCHANGED cur
  /\ UNCHANGED <<mgrVars, shaderVars>>

\* The image of session s finishes loading: onload uploads it.
ImageLoad(s) ==
  /\ sessions[s].image = "loading"
  /\ sessions' = [sessions EXCEPT ![s] = OnLoad(sessions, s)]
  /\ instances' = [instances EXCEPT
                     ![sessions[s].instance].bound =
                        IF sessions[s].texture = "none" THEN 0 ELSE s]
  /\ UNCHANGED <<cur, rafQueue, nextId, lateActivity>>
  /\ UNCHANGED <<mgrVars, shaderVars>>

\* The image of session s fails to load (the code sets no onerror).
ImageError(s) ==
  /\ sessions[s].image = "loading"
  /\ sessions' = [sessions EXCEPT ![s].image = "failed"]
  /\ UNCHANGED <<cur, instances, rafQueue, nextId, lateActivity>>
  /\ UNCHANGED <<mgrVars, shaderVars>>

\* The component unmounts (or strict mode re-runs the effect): the cleanup
\* runs, if the effect returned one.
Teardown ==
  /\ cur > 0
  /\ sessions[cur].status \in {"failed", "running"}
  /\ sessions' = [sessions EXCEPT ![cur].status = "tornDown"]
  /\ rafQueue' = IF sessions[cur].status = "running"
                   THEN Cleanup(rafQueue, instances[sessions[cur].instance])
                   ELSE rafQueue
  /\ UNCHANGED <<cur, instances, nextId, lateActivity>>
  /\ UNCHANGED <<mgrVars, shaderVars>>

LoopNext ==
  \/ \E outcome \in InitOutcomes : \E fresh \in BOOLEAN : MountEffect(outcome, fresh)
  \/ \E cb \in rafQueue : AnimationFrame(cb)
  \/ \E s \in 1..MaxSessions : ImageLoad(s)
  \/ \E s \in 1..MaxSessions : ImageError(s)
  \/ Teardown

(***************************************************************************)
(* The fragment shader of the exported component (lines 205-370).          *)
(*                                                                         *)
(* A GLSL float is [k |-> "num", v |-> x * Milli], [k |-> "nan"] or        *)
(* [k |-> "inf", v |-> sign].  Finite arithmetic is fixed-point with three *)
(* decimals, truncating.  GLSL ES leaves the result of a division by zero, *)
(* of pow with a negative base and of atan(0, 0) unspecified: the platform *)
(* decides it, "ieee" (infinities and NaN) or "flush" (zero).              *)
(***************************************************************************)
Fin(x) == [k |-> "num", v |-> x]
NaN == [k |-> "nan", v |-> 0]
Inf(sign) == [k |-> "inf", v |-> sign]
F(n) == Fin(n * Milli)

\* The floats, the vectors and the running sums of sampleBlurred.
Float == [k : {"num", "nan", "inf"}, v : Int]
Vec == Seq(Float)
TapSums == [color : Vec, total : Float]

IsFin(a) == a.k = "num"
IsNaN(a) == a.k = "nan"
IsZero(a) == a = Fin(0)

Abs(n) == IF n < 0 THEN -n ELSE n
Sgn(n) == IF n < 0 THEN -1 ELSE IF n > 0 THEN 1 ELSE 0

\* The sign of a float that is not NaN.
SignOf(a) == IF IsFin(a) THEN Sgn(a.v) ELSE a.v

\* What the platform gives for an unspecified result.
Unspecified(platform, ieee) == IF platform = "ieee" THEN ieee ELSE Fin(0)

FNeg(a) == IF IsNaN(a) THEN NaN ELSE [a EXCEPT !.v = -@]

FAdd(a, b) ==
  IF IsFin(a) /\ IsFin(b) THEN Fin(a.v + b.v)
  ELSE IF IsNaN(a) \/ IsNaN(b) THEN NaN
  ELSE IF IsFin(a) THEN b
  ELSE IF IsFin(b) THEN a
  ELSE IF a.v = b.v THEN a ELSE NaN

FSub(a, b) == FAdd(a, FNeg(b))

FMul(a, b) ==
  IF IsFin(a) /\ IsFin(b)
    THEN Fin(Sgn(a.v) * Sgn(b.v) * ((Abs(a.v) * Abs(b.v)) \div Milli))
  ELSE IF IsNaN(a) \/ IsNaN(b) THEN NaN
  ELSE IF SignOf(a) = 0 \/ SignOf(b) = 0 THEN NaN
  ELSE Inf(SignOf(a) * SignOf(b))

\* a / b on the given platform.
FDiv(platform, a, b) ==
  IF IsNaN(a) \/ IsNaN(b) THEN NaN
  ELSE IF IsZero(b)
    THEN Unspecified(platform,
                     IF SignOf(a) = 0 THEN NaN ELSE Inf(SignOf(a)))
  ELSE IF IsFin(a) /\ IsFin(b)
    THEN Fin(Sgn(a.v) * Sgn(b.v) * ((Abs(a.v) * Milli) \div Abs(b.v)))
  ELSE IF IsFin(a) THEN Fin(0)
  ELSE IF IsFin(b) THEN Inf(SignOf(a) * SignOf(b))
  ELSE NaN

\* a < b; false when either is NaN.
FLess(a, b) ==
  IF IsNaN(a) \/ IsNaN(b) THEN FALSE
  ELSE IF IsFin(a) /\ IsFin(b) THEN a.v < b.v
  ELSE IF IsFin(a) THEN b.v > 0
  ELSE IF IsFin(b) THEN a.v < 0
  ELSE a.v < b.v

\* min(x, y) = y < x ? y : x and max(x, y) = x < y ? y : x
FMin(x, y) == IF FLess(y, x) THEN y ELSE x
FMax(x, y) == IF FLess(x, y) THEN y ELSE x
FClamp(x, lo, hi) == FMin(FMax(x, lo), hi)
FAbs(a) == IF IsNaN(a) THEN NaN ELSE [a EXCEPT !.v = Abs(@)]
FSign(a) == IF IsNaN(a) THEN NaN ELSE F(SignOf(a))

\* floor(a)
FFloor(a) ==
  IF ~IsFin(a) THEN a
  ELSE Fin((IF a.v >= 0 THEN a.v \div Milli ELSE -((-a.v + Milli - 1) \div Milli)) * Milli)

\* mix(x, y, t) = x * (1 - t) + y * t
FMix(x, y, t) == FAdd(FMul(x, FSub(F(1), t)), FMul(y, t))

RECURSIVE SqrtSearch(_, _, _)
SqrtSearch(n, lo, hi) ==
  IF lo >= hi THEN lo
  ELSE LET mid == (lo + hi + 1) \div 2
       IN  IF mid * mid <= n THEN SqrtSearch(n, mid, hi)
           ELSE SqrtSearch(n, lo, mid - 1)

\* The largest r with r * r <= n.
ISqrt(n) == SqrtSearch(n, 0, 46340)

\* length(vec2(x, y))
FLength(x, y) ==
  IF IsNaN(x) \/ IsNaN(y) THEN NaN
  ELSE IF ~IsFin(x) \/ ~IsFin(y) THEN Inf(1)
  ELSE Fin(ISqrt(x.v * x.v + y.v * y.v))

\* e^x for a finite x <= 0 (times Milli), by halving the argument and the
\* series 1 + x + x^2/2 + x^3/6 + x^4/24.
RECURSIVE ExpNeg(_)
ExpNeg(x) ==
  IF x < -16 * Milli THEN 0
  ELSE IF x < -(Milli \div 2)
    THEN LET h == ExpNeg(x \div 2) IN (h * h) \div Milli
  ELSE LET x2 == (x * x) \div Milli
           x3 == -((x2 * (-x)) \div Milli)
           x4 == (x2 * x2) \div Milli
       IN  Milli + x + x2 \div 2 + (-((-x3) \div 6)) + x4 \div 24

\* exp(a)
FExp(a) ==
  IF IsNaN(a) THEN NaN
  ELSE IF ~IsFin(a) THEN (IF a.v > 0 THEN Inf(1) ELSE Fin(0))
  ELSE IF a.v <= 0 THEN Fin(ExpNeg(a.v))
  ELSE Fin((Milli * Milli) \div ExpNeg(-a.v))

RECURSIVE FPowN(_, _)
FPowN(a, n) == IF n = 0 THEN F(1) ELSE FMul(a, FPowN(a, n - 1))

\* pow(a, 12.0): unspecified for a < 0.
FPow12(platform, a) ==
  IF FLess(a, Fin(0)) THEN Unspecified(platform, NaN) ELSE FPowN(a, 12)

\* 3.141592653589793, to three decimals.
PI == Fin(3142)

\* atan(z) for 0 <= z <= 1 (times Milli): z * (pi/4 + 0.273 * (1 - z)).
AtanUnit(z) == (z * (785 + (273 * (Milli - z)) \div Milli)) \div Milli

\* atan(y, x): the angle of (x, y) in (-pi, pi]; unspecified at (0, 0).
FAtan2(platform, y, x) ==
  IF ~IsFin(x) \/ ~IsFin(y) THEN NaN
  ELSE IF x.v = 0 /\ y.v = 0 THEN Unspecified(platform, Fin(0))
  ELSE LET ax == Abs(x.v)
           ay == Abs(y.v)
           a1 == IF ay <= ax THEN AtanUnit((ay * Milli) \div ax)
                 ELSE 1571 - AtanUnit((ax * Milli) \div ay)
           a2 == IF x.v < 0 THEN 3142 - a1 ELSE a1
       IN  Fin(IF y.v < 0 THEN -a2 ELSE a2)

\* vec2 and vec3 are tuples of floats.
Vec2(n) == <<n, n>>
Vec3(n) == <<n, n, n>>
V2Add(a, b) == <<FAdd(a[1], b[1]), FAdd(a[2], b[2])>>
V2Sub(a, b) == <<FSub(a[1], b[1]), FSub(a[2], b[2])>>
V2Mul(a, b) == <<FMul(a[1], b[1]), FMul(a[2], b[2])>>
V2Scale(a, s) == <<FMul(a[1], s), FMul(a[2], s)>>
V2Abs(a) == <<FAbs(a[1]), FAbs(a[2])>>
V3Add(a, b) == <<FAdd(a[1], b[1]), FAdd(a[2], b[2]), FAdd(a[3], b[3])>>
V3Mul(a, b) == <<FMul(a[1], b[1]), FMul(a[2], b[2]), FMul(a[3], b[3])>>
V3Scale(a, s) == <<FMul(a[1], s), FMul(a[2], s), FMul(a[3], s)>>
V3Mix(a, b, t) == <<FMix(a[1], b[1], t), FMix(a[2], b[2], t), FMix(a[3], b[3], t)>>
Dot2(a, b) == FAdd(FMul(a[1], b[1]), FMul(a[2], b[2]))
Dot3(a, b) == FAdd(FAdd(FMul(a[1], b[1]), FMul(a[2], b[2])), FMul(a[3], b[3]))
length(v) == FLength(v[1], v[2])

\* normalize(v) = v / length(v)
normalize(platform, v) ==
  LET len == length(v)
  IN  <<FDiv(platform, v[1], len), FDiv(platform, v[2], len)>>

HasNaN(v) == \E i \in DOMAIN v : IsNaN(v[i])
AllFinite(v) == \A i \in DOMAIN v : IsFin(v[i])

\* texture2D(u_texture, uv).rgb of the loaded background: edges clamped
\* (lines 450-451).  The image is a colour gradient, so that different
\* coordinates give different texels.  A NaN coordinate has no texel.
Texture2D(uv) ==
  IF HasNaN(uv) THEN Vec3(NaN)
  ELSE LET s == FClamp(uv[1], F(0), F(1))
           t == FClamp(uv[2], F(0), F(1))
       IN  <<s, t, FSub(F(1), s)>>

sdRoundedRect(pos, halfSize, radius) ==
  LET q == <<FAdd(FSub(FAbs(pos[1]), halfSize[1]), radius),
             FAdd(FSub(FAbs(pos[2]), halfSize[2]), radius)>>
  IN  FSub(FAdd(FMin(FMax(q[1], q[2]), F(0)),
                FLength(FMax(q[1], F(0)), FMax(q[2], F(0)))),
           radius)

sdCircle(pos, radius) == FSub(length(pos), radius)

\* int(x), float(int(x))
FTrunc(a) == IF FLess(a, F(0)) THEN FNeg(FFloor(FNeg(a))) ELSE FFloor(a)

\* Lines 247-253 of sdStar, given angle, radius and segmentAngle.
StarDistance(platform, angle, radius, segmentAngle, outerRadius, innerRadius) ==
  LET segment == FFloor(FAdd(FDiv(platform, angle, segmentAngle), Fin(500)))
      segmentStart == FMul(segment, segmentAngle)
      localAngle == FSub(angle, segmentStart)
      halfSegment == FMul(segmentAngle, Fin(500))
      t == FDiv(platform, FAbs(localAngle), halfSegment)
      targetRadius == FMix(outerRadius, innerRadius, t)
  IN  FSub(radius, targetRadius)

sdStar(platform, pos, outerRadius, innerRadius, points) ==
  StarDistance(platform,
               FAtan2(platform, pos[2], pos[1]),
               length(pos),
               FDiv(platform, FMul(F(2), PI), points),
               outerRadius, innerRadius)

\* const vec3 k of sdHexagon
HexK == <<Fin(-866), Fin(500), Fin(577)>>

\* Line 259: pos -= 2.0 * min(dot(k.xy, pos), 0.0) * k.xy
HexReflect(pos) ==
  V2Sub(pos, V2Scale(<<HexK[1], HexK[2]>>,
                     FMul(F(2), FMin(Dot2(<<HexK[1], HexK[2]>>, pos), F(0)))))

\* Line 260: pos -= vec2(clamp(pos.x, -k.z * size, k.z * size), size)
HexCorner(pos, size) ==
  V2Sub(pos, <<FClamp(pos[1], FMul(FNeg(HexK[3]), size), FMul(HexK[3], size)),
               size>>)

\* Line 261: length(pos) * sign(pos.y)
HexDistance(pos) == FMul(length(pos), FSign(pos[2]))

sdHexagon(pos, size) == HexDistance(HexCorner(HexReflect(V2Abs(pos)), size))

sdDonut(pos, outerRadius, thickness) ==
  LET innerRadius == FMul(outerRadius, FSub(F(1), thickness))
      d == length(pos)
  IN  FMax(FSub(d, outerRadius), FSub(innerRadius, d))

getShapeSDF(u, pos) ==
  IF FLess(u.u_shape, Fin(500))
    THEN sdRoundedRect(pos, <<u.u_width, u.u_height>>, u.u_cornerRadius)
  ELSE IF FLess(u.u_shape, Fin(1500))
    THEN sdCircle(pos, FMin(u.u_width, u.u_height))
  ELSE IF FLess(u.u_shape, Fin(2500))
    THEN LET outerRadius == FMul(FMin(u.u_width, u.u_height), Fin(800))
             innerRadius == FMul(outerRadius, u.u_starInnerRadius)
         IN  sdStar(u.platform, pos, outerRadius, innerRadius,
                    FTrunc(u.u_starPoints))
  ELSE IF FLess(u.u_shape, Fin(3500))
    THEN sdHexagon(pos, FMul(FMin(u.u_width, u.u_height), Fin(800)))
  ELSE sdDonut(pos, FMul(FMin(u.u_width, u.u_height), Fin(800)),
               u.u_donutThickness)

saturate(color, factor) ==
  LET gray == Dot3(color, <<Fin(299), Fin(587), Fin(114)>>)
  IN  V3Mix(Vec3(gray), color, factor)

\* The 25 taps of the two loops of sampleBlurred, in the order they run.
Taps == [i \in 1..25 |-> <<((i - 1) \div 5) - 2, ((i - 1) % 5) - 2>>]

\* What the tap (x, y) adds to color and to total (lines 297-300);
\* resolution is u_resolution.
BlurTap(platform, resolution, uv, blurAmount, tap) ==
  LET x == F(tap[1])
      y == F(tap[2])
      offset == <<FDiv(platform, FMul(x, blurAmount), resolution[1]),
                  FDiv(platform, FMul(y, blurAmount), resolution[2])>>
      weight == FExp(FDiv(platform,
                          FNeg(FAdd(FMul(x, x), FMul(y, y))),
                          FMul(FMul(F(2), blurAmount), blurAmount)))
  IN  [color |-> V3Scale(Texture2D(V2Add(uv, offset)), weight),
       total |-> weight]

RECURSIVE SumFinite(_, _)
SumFinite(s, n) == IF n = 0 THEN 0 ELSE s[n].v + SumFinite(s, n - 1)

\* s[1] + ... + s[Len(s)], added left to right: NaN once a term is NaN or
\* two terms are opposite infinities, else the infinity, else the sum.
FSum(s) ==
  IF \A i \in DOMAIN s : IsFin(s[i]) THEN Fin(SumFinite(s, Len(s)))
  ELSE IF \E i \in DOMAIN s : IsNaN(s[i]) THEN NaN
  ELSE IF \E i, j \in DOMAIN s : ~IsFin(s[i]) /\ ~IsFin(s[j]) /\ s[i] # s[j]
    THEN NaN
  ELSE Inf((CHOOSE i \in DOMAIN s : ~IsFin(s[i])).v)

\* color and total after the two loops.
BlurSums(taps) ==
  [color |-> <<FSum([i \in 1..25 |-> taps[i].color[1]]),
               FSum([i \in 1..25 |-> taps[i].color[2]]),
               FSum([i \in 1..25 |-> taps[i].color[3]])>>,
   total |-> FSum([i \in 1..25 |-> taps[i].total])]

\* Line 304 of sampleBlurred, given the sums of the loops and the divisor
\* 2.0 * blurAmount * blurAmount of line 298; zeroDivisor tells whether one
\* of the divisions of sampleBlurred had a zero divisor.
BlurResult(platform, resolution, sums, divisor) ==
  [color |-> <<FDiv(platform, sums.color[1], sums.total),
               FDiv(platform, sums.color[2], sums.total),
               FDiv(platform, sums.color[3], sums.total)>>,
   zeroDivisor |-> \/ IsZero(divisor)
                   \/ IsZero(sums.total)
                   \/ IsZero(resolution[1])
                   \/ IsZero(resolution[2])]

\* sampleBlurred(uv, blurAmount), where resolution is u_resolution.
sampleBlurred(platform, resolution, uv, blurAmount) ==
  BlurResult(platform, resolution,
             BlurSums([i \in 1..25 |->
                         BlurTap(platform, resolution, uv, blurAmount, Taps[i])]),
             FMul(FMul(F(2), blurAmount), blurAmount))

\* Lines 327-329, given grad of lines 323-326 and offsetAmount of line 328.
\* gradient is grad before normalize; normalized tells that normalize ran.
Displaced(u, grad, offsetAmount) ==
  [distortedUV |-> V2Add(u.v_texCoord,
                         V2Scale(normalize(u.platform, grad), offsetAmount)),
   gradient |-> grad,
   normalized |-> TRUE]

\* Lines 323-329 without the test of line 322.
Distortion_Unguarded(u, centeredUV, normalizedInside) ==
  Displaced(u,
    <<FSub(getShapeSDF(u, V2Add(centeredUV, <<F(2), F(0)>>)),
           getShapeSDF(u, V2Sub(centeredUV, <<F(2), F(0)>>))),
      FSub(getShapeSDF(u, V2Add(centeredUV, <<F(0), F(2)>>)),
           getShapeSDF(u, V2Sub(centeredUV, <<F(0), F(2)>>)))>>,
    FMul(FMul(FPow12(u.platform, FAbs(normalizedInside)), Fin(-50)),
         u.u_distortion))

\* Lines 321-330: the coordinate the glass samples at.
Distortion(u, centeredUV, normalizedInside) ==
  IF FLess(F(0), u.u_distortion)
    THEN Displaced(u,
           <<FSub(getShapeSDF(u, V2Add(centeredUV, <<F(2), F(0)>>)),
                  getShapeSDF(u, V2Sub(centeredUV, <<F(2), F(0)>>))),
             FSub(getShapeSDF(u, V2Add(centeredUV, <<F(0), F(2)>>)),
                  getShapeSDF(u, V2Sub(centeredUV, <<F(0), F(2)>>)))>>,
           FMul(FMul(FPow12(u.platform, FAbs(normalizedInside)), Fin(-50)),
                u.u_distortion))
    ELSE [distortedUV |-> u.v_texCoord,
          gradient |-> Vec2(F(0)),
          normalized |-> FALSE]

\* Lines 341-344, given direction * aberration.
Aberrated(u, distortedUV, glassColor, shift) ==
  <<sampleBlurred(u.platform, u.u_resolution,
                  V2Add(distortedUV, V2Scale(shift, Fin(1200))),
                  FMul(u.u_blur, F(3))).color[1],
    glassColor[2],
    sampleBlurred(u.platform, u.u_resolution,
                  V2Sub(distortedUV, V2Scale(shift, Fin(800))),
                  FMul(u.u_blur, F(3))).color[3]>>

\* Lines 335-345: the glass colour with the chromatic aberration.
ChromaticAberration(u, distortedUV, glassColor) ==
  IF FLess(F(0), u.u_chromaticAberration)
    THEN LET center == Vec2(Fin(500))
             direction == normalize(u.platform, V2Sub(distortedUV, center))
             dist == length(V2Sub(distortedUV, center))
             aberration == FMul(FMul(u.u_chromaticAberration, dist), Fin(10))
         IN  Aberrated(u, distortedUV, glassColor,
                       V2Scale(direction, aberration))
    ELSE glassColor

\* Line 362, given shadowMask.
ShadowMix(bgColor, shadowMask) ==
  V3Mix(bgColor, V3Scale(bgColor, FSub(F(1), shadowMask)), shadowMask)

\* Lines 357-363: the background under the drop shadow.
Shadow(u, centeredUV, bgColor) ==
  IF FLess(F(0), u.u_shadowIntensity)
    THEN LET shadowPos == V2Sub(centeredUV, u.u_shadowOffset)
             shadowSdf == getShapeSDF(u, shadowPos)
             shadowMask ==
               FMul(FSub(F(1), FClamp(FDiv(u.platform, shadowSdf, u.u_shadowBlur),
                                      F(0), F(1))),
                    u.u_shadowIntensity)
         IN  ShadowMix(bgColor, shadowMask)
    ELSE bgColor

\* Line 488: the value render() uploads as u_glassMode.
GlassModeUniform(glassMode) == IF glassMode = "dark" THEN F(1) ELSE F(0)

\* A slip of line 367: the dark mode dims the background.
BackgroundPixel_ModeAware(u, bgColor) ==
  [branch |-> "background",
   gradient |-> Vec2(F(0)),
   normalized |-> FALSE,
   distortedUV |-> u.v_texCoord,
   samplerUV |-> u.v_texCoord,
   samplerBlur |-> F(0),
   sampled |-> [color |-> bgColor, zeroDivisor |-> FALSE],
   gl_FragColor |->
     IF IsZero(u.u_glassMode) THEN bgColor ELSE V3Scale(bgColor, Fin(500))]

\* What a run of main leaves when it took the else branch of line 319.  The
\* fields other than branch and gl_FragColor are placeholders.
BackgroundPixel(u, bgColor) ==
  [branch |-> "background",
   gradient |-> Vec2(F(0)),
   normalized |-> FALSE,
   distortedUV |-> u.v_texCoord,
   samplerUV |-> u.v_texCoord,
   samplerBlur |-> F(0),
   sampled |-> [color |-> bgColor, zeroDivisor |-> FALSE],
   gl_FragColor |-> bgColor]

\* Lines 335-365, given d of Distortion and sampled, the result of the
\* sampleBlurred call of line 333.
GlassPixel(u, centeredUV, bgColor, normalizedInside, boxMask, d, sampled) ==
  LET aberrated == ChromaticAberration(u, d.distortedUV, sampled.color)
      tinted == V3Mul(saturate(aberrated, u.u_saturation), u.u_tint)
      edgeBlendFactor == FPow12(u.platform, normalizedInside)
      highlightAmount ==
        FMix(F(0), Fin(300), FClamp(edgeBlendFactor, F(0), F(1)))
      glassColor == V3Add(tinted, Vec3(highlightAmount))
  IN  [branch |-> "glass",
       gradient |-> d.gradient,
       normalized |-> d.normalized,
       distortedUV |-> d.distortedUV,
       samplerUV |-> d.distortedUV,
       samplerBlur |-> FMul(u.u_blur, F(3)),
       sampled |-> sampled,
       gl_FragColor |->
         V3Mix(Shadow(u, centeredUV, bgColor), glassColor, boxMask)]

\* Lines 321-365, given d of Distortion: line 333 samples at d.distortedUV.
Glass(u, centeredUV, bgColor, normalizedInside, boxMask, d) ==
  GlassPixel(u, centeredUV, bgColor, normalizedInside, boxMask, d,
             sampleBlurred(u.platform, u.u_resolution, d.distortedUV,
                           FMul(u.u_blur, F(3))))

\* Lines 313-368, given centeredUV and sdf.
Shade(u, centeredUV, sdf) ==
  LET bgColor == Texture2D(u.v_texCoord)
      normalizedInside == FAdd(FDiv(u.platform, sdf, u.u_height), F(1))
      boxMask == FSub(F(1), FClamp(sdf, F(0), F(1)))
  IN  IF FLess(F(0), boxMask)
        THEN Glass(u, centeredUV, bgColor, normalizedInside, boxMask,
                   Distortion(u, centeredUV, normalizedInside))
        ELSE BackgroundPixel(u, bgColor)

\* Lines 308-310, then the rest of main.
ShadeAt(u, centeredUV) == Shade(u, centeredUV, getShapeSDF(u, centeredUV))

\* main() for one pixel: gl_FragColor.rgb and what the run did on the way.
main(u) == ShadeAt(u, V2Sub(V2Mul(u.v_texCoord, u.u_resolution), u.u_mouse))

\* The uniforms render() sets (lines 469-488) for a 20 x 20 canvas with the
\* pointer at its centre and a 12 x 8 shape, on an "ieee" platform, for the
\* pixel at the centre.
BaseFragment ==
  [platform |-> "ieee", v_texCoord |-> Vec2(Fin(500)),
   u_resolution |-> Vec2(F(20)), u_mouse |-> Vec2(F(10)),
   u_width |-> F(6), u_height |-> F(4),
   u_tint |-> <<F(1), Fin(900), Fin(800)>>, u_saturation |-> Fin(1200),
   u_distortion |-> F(1), u_blur |-> F(1), u_cornerRadius |-> F(1),
   u_chromaticAberration |-> F(0), u_shape |-> F(0),
   u_donutThickness |-> Fin(300), u_starPoints |-> F(5),
   u_starInnerRadius |-> Fin(500), u_shadowIntensity |-> Fin(500),
   u_shadowOffset |-> <<F(0), F(2)>>, u_shadowBlur |-> F(4),
   u_glassMode |-> F(0)]

\* v_texCoord (times Milli) of the pixels that are run: the centre, points
\* inside the shapes, a point on the rectangle's edge, a point outside.
Pixels ==
  {<<500, 500>>, <<700, 500>>, <<500, 650>>, <<600, 550>>, <<800, 600>>,
   <<250, 250>>}

Platforms == {"ieee", "flush"}

\* The runs that are checked.
ShaderInputs ==
  {[BaseFragment EXCEPT !.platform = pl,
                        !.v_texCoord = <<Fin(p[1]), Fin(p[2])>>,
                        !.u_shape = F(shape),
                        !.u_distortion = F(d),
                        !.u_blur = F(b),
                        !.u_chromaticAberration = F(c),
                        !.u_glassMode = F(g)] :
     pl \in Platforms, p \in Pixels, shape \in 0..4, d \in {0, 1},
     b \in {0, 1}, c \in {0, 2}, g \in {0, 1}}

NoFragment == [platform |-> "none"]
NoPixel == [branch |-> "none"]

ShaderInit ==
  /\ frag \in ShaderInputs
  /\ pixel = NoPixel

\* The GPU runs main() for the pixel.
FragmentMain ==
  /\ frag # NoFragment
  /\ pixel = NoPixel
  /\ pixel' = main(frag)
  /\ UNCHANGED frag
  /\ UNCHANGED <<mgrVars, loopVars>>

(***************************************************************************)
(* The specifications.  Each one runs one part of the program and leaves   *)
(* the variables of the other parts at their initial values.               *)
(***************************************************************************)
\* The manager before its first mount, as the other specifications keep it.
MgrIdle ==
  /\ storage = NoItem
  /\ st = InitialState
  /\ view = InitialState
  /\ props = [currentParams |-> ParamsA, currentBackgroundUrl |-> "bg1.jpg"]
  /\ dirty = FALSE
  /\ phase = "unmounted"
  /\ now = 1
  /\ toast = NoToast
  /\ calls = <<>>
  /\ output = NoOutput
  /\ nextSn = 1
  /\ savedWith = [n \in 1..MaxSaves |-> Undefined]

\* No fragment is being run.
ShaderIdle ==
  /\ frag = NoFragment
  /\ pixel = NoPixel

Init == MgrInit /\ LoopInit /\ ShaderIdle

Next == MgrNext

Spec == Init /\ [][Next]_vars

InitExport == ExportInit /\ LoopInit /\ ShaderIdle

SpecExport == InitExport /\ [][ExportNext]_vars

InitLoop == MgrIdle /\ LoopInit /\ ShaderIdle

SpecLoop == InitLoop /\ [][LoopNext]_vars

InitShader == MgrIdle /\ LoopInit /\ ShaderInit

SpecShader == InitShader /\ [][FragmentMain]_vars

(***************************************************************************)
(* Properties of the list of designs (checked under Spec).                 *)
(***************************************************************************)
\* The name is empty or consists only of whitespace.
OnlyWhitespace(name) == \A i \in 1..Len(name) : name[i] \in Whitespace

ErrorToast == Toast("error", "Please enter a name for your design", <<>>)

\* C3: a handleSaveDesign call whose name is empty or only whitespace creates
\* no Design: the saved list (queued and rendered) and the stored item are
\* unchanged, the error toast is shown, and the component keeps running.
C3_BlankNameRejected ==
  [][ (HandleSaveDesign /\ OnlyWhitespace(view.designName))
        => /\ st'.savedDesigns = st.savedDesigns
           /\ view'.savedDesigns = view.savedDesigns
           /\ storage' = storage
           /\ nextSn' = nextSn
           /\ toast' = ErrorToast
           /\ phase' = "mounted" ]_vars

\* A whitespace-only name was submitted while a design was in the list, and
\* the error toast is up.
C3_Witness ==
  /\ toast = ErrorToast
  /\ view.isSaveDialogOpen
  /\ view.designName = <<" ", "\t">>
  /\ Length(st.savedDesigns) = 1

\* The well-formed records of a stored text, in stored order.
WellFormedStored(text) ==
  IF text.t = "json" /\ IsList(text.v)
    THEN SelectSeq(JSONparse(text).v.v, IsDesign)
    ELSE <<>>

\* C4: on mount the in-memory list becomes exactly the well-formed stored
\* records, in stored order, and no stored value ever faults the component.
C4_LoadSkipsMalformed ==
  [][ /\ (phase = "unmounted" /\ phase' = "mounted")
           => st'.savedDesigns = List(WellFormedStored(storage))
      /\ phase' # "faulted" ]_vars

\* The Designs (the elements that have an id) of a list value.
DesignsOf(x) ==
  IF IsList(x) THEN SelectSeq(x.v, LAMBDA d : d.t = "design") ELSE <<>>

C5_Distinct ==
  LET ds == DesignsOf(st.savedDesigns)
  IN  \A i, j \in 1..Len(ds) : i # j => ds[i].id # ds[j].id

C5_Stable ==
  LET old == DesignsOf(st.savedDesigns)
      new == DesignsOf(st'.savedDesigns)
  IN  phase' = "mounted" /\ phase = "mounted" =>
        \A i \in 1..Len(old) : \A j \in 1..Len(new) :
          (old[i].sn = new[j].sn /\ old[i].sn > 0) => old[i].id = new[j].id

\* C5: the Designs of the saved list have pairwise distinct ids, and a Design
\* keeps its id while it stays in the list.
C5_UniqueStableIds == []C5_Distinct /\ [][C5_Stable]_vars

\* C6: handleLoadDesign(D) calls onLoadDesign exactly once, with the
\* parameters and background locator that were the props when D was saved,
\* and changes neither the saved list nor the stored item.
C6_LoadHandsSavedPair ==
  [][ \A i \in ShownDesigns :
        HandleLoadDesign(i)
          => /\ calls' = <<savedWith[view.savedDesigns.v[i].sn]>>
             /\ st'.savedDesigns = st.savedDesigns
             /\ storage' = storage ]_vars

\* A Design saved with ParamsB and "bg2.png" in this session was loaded after
\* the editor went back to ParamsA.
C6_Witness ==
  /\ calls = <<Pair(ParamsB, "bg2.png")>>
  /\ props.currentParams = ParamsA
  /\ Length(view.savedDesigns) = 2


(***************************************************************************)
(* Properties of the exported text (checked under SpecExport).             *)
(***************************************************************************)
StringValue(x) == [t |-> "string", v |-> x]
NumberValue(x) == [t |-> "number", v |-> x]

\* The value a literal of the generated params object denotes.
ParseLiteral(lit) ==
  IF lit[1] = "'" THEN StringValue(lit[2]) ELSE NumberValue(ParseNumber(lit))

\* The params object of a generated text, parsed: key -> value.
ParsedParamsObject(code) ==
  LET entries == code.paramsObject
  IN  [k \in {entries[i].key : i \in 1..Len(entries)} |->
         ParseLiteral(entries[CHOOSE i \in 1..Len(entries) : entries[i].key = k].lit)]

\* Field f of a ParameterSet, as a JavaScript value.
FieldValue(params, f) ==
  IF f \in StringParamFields THEN StringValue(params[f]) ELSE NumberValue(params[f])

Exported == st.generatedCode # NoCode

\* C7 as stated: the parsed params object reproduces the ParameterSet of the
\* exported Design field for field, for all fields of ShaderParams.
C7_RoundTripAllFields ==
  Exported =>
    LET parsed == ParsedParamsObject(st.generatedCode)
    IN  \A f \in ShaderParamFields :
          /\ f \in DOMAIN parsed
          /\ parsed[f] = FieldValue(st.selectedDesign.params, f)

\* The fields the generated params object does not hold.
NotInParamsObject == {"text", "iconSize"}

\* C7, amended: the params object holds every field of ShaderParams except
\* text and iconSize; each numeric field and glassMode parse back to the
\* Design's value (donutThickness, starPoints and starInnerRadius included,
\* whatever the shape), and shape parses back to the 0-based index of the
\* Design's shape in ShapeNames.
C7_RoundTripParamsObject ==
  Exported =>
    LET parsed == ParsedParamsObject(st.generatedCode)
        params == st.selectedDesign.params
    IN  /\ DOMAIN parsed = ShaderParamFields \ NotInParamsObject
        /\ \A f \in (ShaderParamFields \ NotInParamsObject) \ {"shape"} :
             parsed[f] = FieldValue(params, f)
        /\ parsed["shape"].t = "number"
        /\ \E i \in 1..Len(ShapeNames) :
             /\ ShapeNames[i] = params.shape
             /\ parsed["shape"].v = (i - 1) * Milli

\* A circle with fractional and negative parameters, and star and donut
\* fields it does not use, was exported.
C7_Witness ==
  /\ Exported
  /\ st.selectedDesign.params = ParamsB
  /\ st.isCodeDialogOpen


(***************************************************************************)
(* Properties of the render loop (checked under SpecLoop).                 *)
(***************************************************************************)
\* C1: once a session is torn down, render() never runs for it again and
\* no requestAnimationFrame callback of it stays pending, in every
\* interleaving of ticks, image events and teardown.
C1_NoActivityAfterTeardown ==
  /\ ~lateActivity
  /\ \A cb \in rafQueue : sessions[cb.session].status # "tornDown"

\* A session was torn down after its loop ran: the first frame and a tick.
C1_Witness ==
  \E s \in 1..MaxSessions :
    /\ sessions[s].status = "tornDown"
    /\ sessions[s].frames >= 2
    /\ ~lateActivity

\* A tick of a session that passed initialisation draws a frame and
\* schedules the next tick, whatever the state of its image.
C2_TickDraws ==
  \A cb \in rafQueue :
    (AnimationFrame(cb) /\ sessions[cb.session].init = "ok")
      => /\ sessions'[cb.session].frames = sessions[cb.session].frames + 1
         /\ \E next \in rafQueue' : next.session = cb.session /\ next # cb

\* The loop of a running session never stops: a tick is pending in every
\* image state; and a frame drawn when the image was ready sampled it.
C2_LoopAlive ==
  \A s \in 1..MaxSessions :
    /\ (sessions[s].status = "running" /\ sessions[s].init = "ok")
         => \E cb \in rafQueue : cb.session = s
    /\ sessions[s].lastFrame.image = "ready"
         => sessions[s].lastFrame.sampled = "image"

\* C2: the loop draws a frame on every tick in every state of the
\* background image (loading, ready, failed), and every frame drawn once the
\* image is ready samples the loaded image.
C2_FramesInEveryTextureState == []C2_LoopAlive /\ [][C2_TickDraws]_vars

\* One session drew its last frame, a tick, with the image ready and another
\* one with the image failed.
C2_Witness ==
  \E s, t \in 1..MaxSessions :
    /\ sessions[s].frames >= 2
    /\ sessions[s].lastFrame = [image |-> "ready", sampled |-> "image"]
    /\ sessions[t].frames >= 2
    /\ sessions[t].lastFrame.image = "failed"

(***************************************************************************)
(* Properties of the fragment shader (checked under SpecShader).           *)
(***************************************************************************)
InGlass == pixel.branch = "glass"

\* C8: with distortion = 0 the coordinate passed to the sampler is the
\* pixel's undistorted texture coordinate, for every pixel and shape.
C8_NoDistortionNoDisplacement ==
  (InGlass /\ IsZero(frag.u_distortion)) => pixel.samplerUV = frag.v_texCoord

\* A pixel on the rectangle's edge, where the displacement is largest, was
\* shaded with distortion = 0.
C8_Witness ==
  /\ InGlass
  /\ IsZero(frag.u_distortion)
  /\ frag.v_texCoord = <<Fin(800), Fin(600)>>
  /\ pixel.samplerUV = frag.v_texCoord

\* C9: with distortion > 0, where the finite-difference gradient is (0, 0)
\* normalize is not applied, the sampler gets the undistorted coordinate and
\* no NaN or infinity reaches that coordinate or the final colour.
C9_ZeroGradientZeroDisplacement ==
  (InGlass /\ FLess(F(0), frag.u_distortion) /\ pixel.gradient = Vec2(F(0)))
    => /\ ~pixel.normalized
       /\ pixel.samplerUV = frag.v_texCoord
       /\ AllFinite(pixel.gl_FragColor)

\* C10: with blur = 0 sampleBlurred divides by no zero and returns the
\* texel at the coordinate it was given.
C10_ZeroBlurExactTexel ==
  (InGlass /\ IsZero(frag.u_blur))
    => /\ ~pixel.sampled.zeroDivisor
       /\ pixel.sampled.color = Texture2D(pixel.samplerUV)


\* The fragment with the mode flag of ParameterSet value glassMode, all else
\* equal.
WithGlassMode(u, glassMode) ==
  [u EXCEPT !.u_glassMode = GlassModeUniform(glassMode)]

\* C11: the light/dark flag is inert: the pixel's final colour is the colour
\* main() gives for the same fragment with glassMode "light" and with
\* glassMode "dark", at every pixel, shape, effect setting and platform.
C11_GlassModeInert ==
  pixel # NoPixel =>
    \A glassMode \in {"light", "dark"} :
      main(WithGlassMode(frag, glassMode)).gl_FragColor = pixel.gl_FragColor

\* A dark-mode pixel inside the glass was shaded with every effect on.
C11_Witness ==
  /\ InGlass
  /\ frag.u_glassMode = GlassModeUniform("dark")
  /\ frag.u_distortion = F(1)
  /\ frag.u_blur = F(1)
  /\ AllFinite(pixel.gl_FragColor)


(***************************************************************************)
(* Properties of the stored list (checked under Spec).                     *)
(***************************************************************************)
\* The stored item holds a list, or there is no item.
StoredIsList ==
  \/ storage = NoItem
  \/ storage.t = "json" /\ IsList(storage.v)

\* The list persisted under STORAGE_KEY, a missing key counting as the empty
\* list.
StoredList ==
  IF storage = NoItem THEN List(<<>>) ELSE JSONparse(storage).v

\* C12: whenever every queued update and effect of the mounted component has
\* run, the list persisted under STORAGE_KEY equals the in-memory
\* savedDesigns.
C12_StoredEqualsShown ==
  (phase = "mounted" /\ Settled /\ StoredIsList /\ IsList(st.savedDesigns))
    => StoredList = st.savedDesigns

\* The positions of the entries of old whose id is not X, and the j-th
\* smallest member of a set of positions.
Kept(old, X) == {i \in 1..Len(old) : old[i].id # X}
NthOf(S, j) == CHOOSE i \in S : Cardinality({k \in S : k <= i}) = j

\* new is old with exactly the entries of id X taken out: every other entry
\* is there, unchanged and in the same relative order.
OnlyIdRemoved(old, new, X) ==
  /\ Len(new) = Cardinality(Kept(old, X))
  /\ \A j \in 1..Len(new) : new[j] = old[NthOf(Kept(old, X), j)]

\* C13: a successful save puts exactly one new Design at the head of the
\* saved list and leaves the Designs that were there, and their order, as
\* they were; a delete of id X takes out only the entries whose id is X and
\* leaves the others, and their order, as they were (so a delete of an id
\* that is no longer in the list changes nothing).
C13_OnlyOwnEntryChanges ==
  [][ /\ (HandleSaveDesign /\ ~IsBlankName(view.designName)
                            /\ IsList(st.savedDesigns))
        => /\ IsList(st'.savedDesigns)
           /\ Len(st'.savedDesigns.v) = Len(st.savedDesigns.v) + 1
           /\ Tail(st'.savedDesigns.v) = st.savedDesigns.v
           /\ Head(st'.savedDesigns.v).sn = nextSn
           /\ Head(st'.savedDesigns.v).name = Trim(view.designName)
      /\ \A i \in ShownDesigns :
           (HandleDeleteDesign(i) /\ IsList(st.savedDesigns))
             => /\ IsList(st'.savedDesigns)
                /\ OnlyIdRemoved(st.savedDesigns.v, st'.savedDesigns.v,
                                 view.savedDesigns.v[i].id) ]_vars

\* The second of two Designs with different ids was deleted, the first is
\* still in the list.
C13_Witness ==
  /\ toast.kind = "success" /\ toast.text = "deleted"
  /\ Length(view.savedDesigns) = 2
  /\ view.savedDesigns.v[1].id # view.savedDesigns.v[2].id
  /\ st.savedDesigns = List(<<view.savedDesigns.v[1]>>)
  /\ view.savedDesigns.v[1].sn = 2

(***************************************************************************)
(* Further properties of the render loop (checked under SpecLoop).         *)
(***************************************************************************)
\* The pending animation-frame callbacks of session s.
PendingOf(s) == {cb \in rafQueue : cb.session = s}

\* C14: at every moment each session has at most one pending animation-frame
\* callback, over every sequence of mount, tick, image event, teardown and
\* remount; and a session whose initialisation returned early (no canvas, no
\* context, shader or link failure) draws no frame and has no callback
\* scheduled, ever.
C14_OnePendingTickNoneAfterFailure ==
  \A s \in 1..MaxSessions :
    /\ Cardinality(PendingOf(s)) <= 1
    /\ sessions[s].init \in EarlyReturns
         => /\ PendingOf(s) = {}
            /\ sessions[s].frames = 0
            /\ sessions[s].status \in {"failed", "tornDown"}

\* After a session that failed to initialise was torn down, the remounted
\* session has drawn several frames and has its one callback pending.
C14_Witness ==
  /\ cur = 2
  /\ sessions[1].init \in EarlyReturns
  /\ sessions[1].status = "tornDown"
  /\ sessions[2].status = "running"
  /\ sessions[2].frames >= 3
  /\ Cardinality(PendingOf(2)) = 1
====
